---- MODULE Spec2Model ----
(***************************************************************************)
(* Surface Layers API (MapLayers/api.py): bounding box, Overpass fallback  *)
(* fetch, sealed/unsealed classification, surface-temperature grid.        *)
(***************************************************************************)
EXTENDS Integers, Sequences, FiniteSets, TLC

VARIABLES
    bbox_in,     \* get_bbox: the arguments (center_lat, center_lon, square_size_km)
    bbox_out,    \* get_bbox: pending, the returned box, or the exception raised
    osm_data,    \* classify_and_convert: the parsed Overpass response it is given
    layers,      \* classify_and_convert + LayerResponse: pending, or the response
    requests,    \* generate_layers: each in-flight request's coroutine state
    temp         \* get_surface_temperature: the request's locals and its response

vars == <<bbox_in, bbox_out, osm_data, layers, requests, temp>>

\* A result not yet computed, and a variable the specification does not use.
Pending == [status |-> "pending"]

Idle == [status |-> "idle"]

(***************************************************************************)
(* Python floats.  A float is modelled as a decimal floating-point number  *)
(* [m, e] meaning m * 10^e with a significand of Digits decimal digits,    *)
(* every operation rounding its exact result to nearest (as IEEE-754 does  *)
(* in binary with 53 bits).  Division by a zero divisor raises             *)
(* ZeroDivisionError, as Python's float division does.                     *)
(***************************************************************************)

\* Significand width of the float model, in decimal digits.
Digits == 7

ZeroDivisionError == [exception |-> "ZeroDivisionError"]

Raised(x) == "exception" \in DOMAIN x

Abs(n) == IF n < 0 THEN -n ELSE n

Sign(n) == IF n < 0 THEN -1 ELSE 1

RECURSIVE Pow10(_)
Pow10(n) == IF n <= 0 THEN 1 ELSE 10 * Pow10(n - 1)

RECURSIVE NumDigits(_)
NumDigits(n) == IF n < 10 THEN 1 ELSE 1 + NumDigits(n \div 10)

\* The float nearest to m * 10^e: the significand rounded to Digits digits.
RECURSIVE FNorm(_, _)
FNorm(m, e) ==
    IF m = 0 THEN [m |-> 0, e |-> 0]
    ELSE LET k == NumDigits(Abs(m)) - Digits
         IN  IF k > 0
             THEN LET r == (Abs(m) + (Pow10(k) \div 2)) \div Pow10(k)
                  IN  IF r >= Pow10(Digits)
                      THEN FNorm(Sign(m) * r, e + k)
                      ELSE [m |-> Sign(m) * r, e |-> e + k]
             ELSE [m |-> m * Pow10(-k), e |-> e + k]

FNeg(a) == [m |-> -a.m, e |-> a.e]

FAbs(a) == [m |-> Abs(a.m), e |-> a.e]

\* a + b, the smaller operand aligned to one guard digit below the larger.
FAdd(a, b) ==
    IF a.m = 0 THEN b
    ELSE IF b.m = 0 THEN a
    ELSE LET hi == IF a.e >= b.e THEN a ELSE b
             lo == IF a.e >= b.e THEN b ELSE a
             d  == hi.e - lo.e
         IN  IF d > Digits + 1 THEN hi
             ELSE LET low == IF d = 0 THEN lo.m * 10
                             ELSE Sign(lo.m) *
                                  ((Abs(lo.m) + (Pow10(d - 1) \div 2)) \div Pow10(d - 1))
                  IN  FNorm(hi.m * 10 + low, hi.e - 1)

FSub(a, b) == FAdd(a, FNeg(b))

\* a * b: the product's leading Digits + 1 digits, then rounded.
FMul(a, b) ==
    LET x  == Abs(a.m)
        y  == Abs(b.m)
        x1 == x \div 10000
        x0 == x % 10000
        y1 == y \div 10000
        y0 == y % 10000
        t  == (x1 * y1) * Pow10(9 - Digits)
              + ((x1 * y0 + x0 * y1) + ((x0 * y0) \div 10000)) \div Pow10(Digits - 5)
    IN  FNorm(Sign(a.m) * Sign(b.m) * t, a.e + b.e + Digits - 1)

\* Long division: the quotient q extended by n more digits of r / y.
RECURSIVE LongDiv(_, _, _, _)
LongDiv(q, r, y, n) ==
    IF n = 0 THEN q
    ELSE LongDiv(q * 10 + ((r * 10) \div y), (r * 10) % y, y, n - 1)

\* a / b, or ZeroDivisionError.
FDiv(a, b) ==
    IF b.m = 0 THEN ZeroDivisionError
    ELSE LET x == Abs(a.m)
             y == Abs(b.m)
             q == LongDiv(x \div y, x % y, y, Digits)
         IN  FNorm(Sign(a.m) * Sign(b.m) * q, a.e - b.e - Digits)

FLt(a, b) == FSub(a, b).m < 0

FLe(a, b) == FSub(a, b).m <= 0

\* Python's max(a, b): b only when b > a.
FMax(a, b) == IF FLt(a, b) THEN b ELSE a

\* round(a, 2): to two decimals, a tie to the even neighbour.
FRound2(a) ==
    IF a.m = 0 \/ a.e >= -2 THEN a
    ELSE LET k == -2 - a.e
         IN  IF k > Digits + 1 THEN FNorm(0, 0)
             ELSE LET q    == Abs(a.m) \div Pow10(k)
                      rem  == Abs(a.m) % Pow10(k)
                      half == Pow10(k) \div 2
                      r    == IF rem > half \/ (rem = half /\ q % 2 = 1) THEN q + 1 ELSE q
                  IN  FNorm(Sign(a.m) * r, -2)

(***************************************************************************)
(* get_bbox                                                                *)
(***************************************************************************)

\* The cosine of the exact angle: 0 at the poles.
CosRadiansExact(lat) ==
    CASE lat = FNorm(-90, 0)      -> FNorm(0, 0)
      [] lat = FNorm(-60, 0)      -> FNorm(5, -1)
      [] lat = FNorm(0, 0)        -> FNorm(1, 0)
      [] lat = FNorm(45, 0)       -> FNorm(70710678, -8)
      [] lat = FNorm(482082, -4)  -> FNorm(66642577, -8)
      [] lat = FNorm(899, -1)     -> FNorm(17453284, -10)
      [] lat = FNorm(90, 0)       -> FNorm(0, 0)

\* math.cos(math.radians(center_lat)) as the C library computes it in
\* IEEE-754 doubles, to 8 significant digits.  math.radians(90.0) is the
\* double nearest pi/2, whose cosine is 6.123233995736766e-17, not 0.
CosRadians(lat) ==
    CASE lat = FNorm(-90, 0)      -> FNorm(61232340, -24)
      [] lat = FNorm(-60, 0)      -> FNorm(5, -1)
      [] lat = FNorm(0, 0)        -> FNorm(1, 0)
      [] lat = FNorm(45, 0)       -> FNorm(70710678, -8)
      [] lat = FNorm(482082, -4)  -> FNorm(66642577, -8)
      [] lat = FNorm(899, -1)     -> FNorm(17453284, -10)
      [] lat = FNorm(90, 0)       -> FNorm(61232340, -24)

\* LayerRequest: the field constraints ge/le of lat, lon and size_km.
LayerRequestValid(lat, lon, size_km) ==
    /\ FLe(FNorm(-90, 0), lat) /\ FLe(lat, FNorm(90, 0))
    /\ FLe(FNorm(-180, 0), lon) /\ FLe(lon, FNorm(180, 0))
    /\ FLe(FNorm(5, -1), size_km) /\ FLe(size_km, FNorm(10, 0))

\* The latitudes, longitudes and sizes the requests are drawn from.
Latitudes == { FNorm(-90, 0), FNorm(-60, 0), FNorm(0, 0), FNorm(45, 0),
               FNorm(482082, -4), FNorm(899, -1), FNorm(90, 0) }

Longitudes == { FNorm(-180, 0), FNorm(-5, -1), FNorm(0, 0), FNorm(163738, -4),
                FNorm(180, 0) }

Sizes == { FNorm(5, -1), FNorm(1, 0), FNorm(5, 0), FNorm(10, 0) }

\* get_bbox(center_lat, center_lon, square_size_km): (south, west, north, east).
get_bbox(center_lat, center_lon, square_size_km) ==
    LET half_size_km == FDiv(square_size_km, FNorm(2, 0))
        lat_offset   == FDiv(half_size_km, FNorm(111, 0))
        lon_offset   == FDiv(half_size_km, FMul(FNorm(111, 0), CosRadians(center_lat)))
    IN  IF Raised(lon_offset) THEN lon_offset
        ELSE [ south |-> FSub(center_lat, lat_offset),
               west  |-> FSub(center_lon, lon_offset),
               north |-> FAdd(center_lat, lat_offset),
               east  |-> FAdd(center_lon, lon_offset) ]


(***************************************************************************)
(* classify_and_convert                                                    *)
(***************************************************************************)

\* A Python dict is a function from its keys; d.get(k) is None for a key
\* that is absent.
None == "None"

EmptyDict == [k \in {} |-> None]

Has(d, k) == k \in DOMAIN d

Get(d, k) == IF k \in DOMAIN d THEN d[k] ELSE None

GetOr(d, k, default) == IF k \in DOMAIN d THEN d[k] ELSE default

\* sealed_tags with one key left out.
sealed_tags_missing_aeroway == {"building", "highway", "railway", "amenity"}

\* The classification rules.
sealed_tags == {"building", "highway", "railway", "aeroway", "amenity"}

sealed_landuse == {"industrial", "commercial", "retail", "construction", "railway"}

sealed_leisure == {"pitch", "track", "sports_centre"}

is_sealed(tags) ==
    \/ \E tag \in sealed_tags : Has(tags, tag)
    \/ Get(tags, "landuse") \in sealed_landuse
    \/ Get(tags, "leisure") \in sealed_leisure

\* coords = [[node['lon'], node['lat']] for node in elem['geometry']]
Coords(geometry) == [i \in 1..Len(geometry) |-> <<geometry[i].lon, geometry[i].lat>>]

\* The ring closed without the test.
close_ring_always(coords) == Append(coords, coords[1])

\* Close polygon if needed.
close_ring(coords) ==
    IF coords[1] # coords[Len(coords)] THEN Append(coords, coords[1]) ELSE coords

\* The length guard off by one.
skip_element_under_two(elem) ==
    \/ elem.type # "way"
    \/ ~Has(elem, "geometry")
    \/ Len(Coords(elem.geometry)) < 2

\* The two `continue` guards of the loop.
skip_element(elem) ==
    \/ elem.type # "way"
    \/ ~Has(elem, "geometry")
    \/ Len(Coords(elem.geometry)) < 3

Feature(elem) ==
    [ type       |-> "Feature",
      geometry   |-> [ type |-> "Polygon",
                       coordinates |-> << close_ring(Coords(elem.geometry)) >> ],
      properties |-> GetOr(elem, "tags", EmptyDict) ]

\* The loop with the sealed branch falling through to the unsealed append.
RECURSIVE classify_loop_no_else(_, _, _, _)
classify_loop_no_else(elements, i, sealed_features, unsealed_features) ==
    IF i > Len(elements)
    THEN [ sealed   |-> [type |-> "FeatureCollection", features |-> sealed_features],
           unsealed |-> [type |-> "FeatureCollection", features |-> unsealed_features] ]
    ELSE LET elem == elements[i]
         IN  IF skip_element(elem)
             THEN classify_loop_no_else(elements, i + 1, sealed_features, unsealed_features)
             ELSE IF is_sealed(GetOr(elem, "tags", EmptyDict))
             THEN classify_loop_no_else(elements, i + 1,
                                        Append(sealed_features, Feature(elem)),
                                        Append(unsealed_features, Feature(elem)))
             ELSE classify_loop_no_else(elements, i + 1,
                                        sealed_features, Append(unsealed_features, Feature(elem)))

\* The loop over osm_data['elements'] from element i on.
RECURSIVE classify_loop(_, _, _, _)
classify_loop(elements, i, sealed_features, unsealed_features) ==
    IF i > Len(elements)
    THEN [ sealed   |-> [type |-> "FeatureCollection", features |-> sealed_features],
           unsealed |-> [type |-> "FeatureCollection", features |-> unsealed_features] ]
    ELSE LET elem == elements[i]
         IN  IF skip_element(elem)
             THEN classify_loop(elements, i + 1, sealed_features, unsealed_features)
             ELSE IF is_sealed(GetOr(elem, "tags", EmptyDict))
             THEN classify_loop(elements, i + 1,
                                Append(sealed_features, Feature(elem)), unsealed_features)
             ELSE classify_loop(elements, i + 1,
                                sealed_features, Append(unsealed_features, Feature(elem)))

classify_and_convert(osm) ==
    IF DOMAIN osm = {} \/ ~Has(osm, "elements")
    THEN LET empty == [type |-> "FeatureCollection", features |-> <<>>]
         IN  [sealed |-> empty, unsealed |-> empty]
    ELSE classify_loop(osm.elements, 1, <<>>, <<>>)

\* generate_layers after the fetch: classify and build the LayerResponse.
LayerResponse(osm) ==
    LET split == classify_and_convert(osm)
    IN  [ sealed_geojson   |-> split.sealed,
          unsealed_geojson |-> split.unsealed,
          status           |-> "success",
          sealed_count     |-> Len(split.sealed.features),
          unsealed_count   |-> Len(split.unsealed.features) ]

(***************************************************************************)
(* The Overpass responses the classifier is run on.                        *)
(***************************************************************************)

\* Longest element list, longest geometry and largest tag mapping enumerated.
MaxElems == 2

MaxNodes == 4

MaxTags == 2

RECURSIVE SeqsUpTo(_, _)
SeqsUpTo(S, n) ==
    IF n = 0 THEN { <<>> }
    ELSE LET shorter == SeqsUpTo(S, n - 1)
         IN  shorter \cup { Append(s, x) : s \in { t \in shorter : Len(t) = n - 1 }, x \in S }

Nodes == { [lat |-> 482000000, lon |-> 163000000],
           [lat |-> 482000000, lon |-> 163001000],
           [lat |-> 482001000, lon |-> 163001000] }

Geometries == SeqsUpTo(Nodes, MaxNodes)

TagKeys == {"building", "highway", "railway", "aeroway", "amenity",
            "landuse", "leisure", "natural"}

TagValues == {"yes", "industrial", "railway", "pitch", "forest", "park"}

TagMaps == UNION { [K -> TagValues] : K \in { K \in SUBSET TagKeys : Cardinality(K) <= MaxTags } }

\* The dict d without its key k.
Without(d, k) == [x \in DOMAIN d \ {k} |-> d[x]]

\* Elements that element lists are built from: ways and nodes, with a
\* geometry of 2 points, 3 points (open) or 4 points (closed) or none, and
\* with sealed tags, unsealed tags or none.
ListGeometries ==
    LET a == [lat |-> 482000000, lon |-> 163000000]
        b == [lat |-> 482000000, lon |-> 163001000]
        c == [lat |-> 482001000, lon |-> 163001000]
    IN  { <<a, b>>, <<a, b, c>>, <<a, b, c, a>> }

ListTags == { [building |-> "yes"], [landuse |-> "forest"] }

ListElements ==
    LET full == { [type |-> t, geometry |-> g, tags |-> tg] :
                    t \in {"way", "node"}, g \in ListGeometries, tg \in ListTags }
    IN  full \cup { Without(e, "tags") : e \in full }
             \cup { Without(e, "geometry") : e \in full }

\* One way with an open 3-point geometry under every tag mapping, and ways
\* and nodes with every geometry.
TagProbes ==
    { [type |-> "way", geometry |-> g, tags |-> tg] :
        g \in { h \in ListGeometries : Len(h) = 3 }, tg \in TagMaps }

GeometryProbes ==
    LET full == { [type |-> t, geometry |-> g, tags |-> tg] :
                    t \in {"way", "node"}, g \in Geometries, tg \in ListTags }
    IN  full \cup { Without(e, "tags") : e \in full }

OsmResponses ==
    { EmptyDict, [remark |-> "runtime error"], [version |-> "0.6", elements |-> <<>>] }
    \cup { [elements |-> s] : s \in SeqsUpTo(ListElements, MaxElems) }
    \cup { [elements |-> <<e>>] : e \in TagProbes \cup GeometryProbes }

(***************************************************************************)
(* Specification of classify_and_convert and the LayerResponse built from  *)
(* it, over the Overpass responses.                                        *)
(***************************************************************************)

InitClassify ==
    /\ osm_data \in OsmResponses
    /\ layers = Pending
    /\ bbox_in = Idle
    /\ bbox_out = Idle
    /\ requests = Idle
    /\ temp = Idle

ClassifyAndRespond ==
    /\ layers = Pending
    /\ layers' = LayerResponse(osm_data)
    /\ UNCHANGED <<osm_data, bbox_in, bbox_out, requests, temp>>

NextClassify == ClassifyAndRespond

SpecClassify == InitClassify /\ [][NextClassify]_vars

\* The input and the output of the classifier, as the properties below read them.
Range(s) == { s[i] : i \in DOMAIN s }

Count(s, x) == Cardinality({ i \in DOMAIN s : s[i] = x })

Classified == layers # Pending /\ layers # Idle

SealedOut == layers.sealed_geojson.features

UnsealedOut == layers.unsealed_geojson.features

ElementsIn == IF "elements" \in DOMAIN osm_data THEN osm_data.elements ELSE <<>>

\* An element the classifier processes: a way with a geometry of >= 3 points.
IsProcessed(e) ==
    /\ e.type = "way"
    /\ "geometry" \in DOMAIN e
    /\ Len(e.geometry) >= 3

ProcessedIn == SelectSeq(ElementsIn, IsProcessed)

TagsOf(e) == IF "tags" \in DOMAIN e THEN e.tags ELSE EmptyDict

PairsOf(e) == [i \in DOMAIN e.geometry |-> <<e.geometry[i].lon, e.geometry[i].lat>>]

RingOf(f) == f.geometry.coordinates[1]

IsClosed(ring) == ring[1] = ring[Len(ring)]

\* The feature the spec describes for a processed element.
ExpectedFeature(e) ==
    [ type       |-> "Feature",
      geometry   |-> [ type |-> "Polygon",
                       coordinates |-> << IF IsClosed(PairsOf(e)) THEN PairsOf(e)
                                          ELSE PairsOf(e) \o << PairsOf(e)[1] >> >> ],
      properties |-> TagsOf(e) ]

ExpectedFeatures == [i \in DOMAIN ProcessedIn |-> ExpectedFeature(ProcessedIn[i])]

\* C3: every processed element is in exactly one of the two collections
\* (the two collections together hold each processed element's feature as
\* often as the input holds the element, and no feature is in both), and
\* the label depends on the tags alone: a sealed and an unsealed feature
\* never carry the same tag mapping.
C3_PartitionByTags ==
    Classified =>
        /\ \A f \in Range(SealedOut) \cup Range(UnsealedOut) \cup Range(ExpectedFeatures) :
              Count(SealedOut, f) + Count(UnsealedOut, f) = Count(ExpectedFeatures, f)
        /\ Range(SealedOut) \cap Range(UnsealedOut) = {}
        /\ \A f \in Range(SealedOut), g \in Range(UnsealedOut) :
              f.properties # g.properties

\* Two processed elements with the same tags and different geometries, and
\* a third kind of tags, were classified.
C3_Witness ==
    /\ Classified
    /\ Len(ProcessedIn) = 2
    /\ TagsOf(ProcessedIn[1]) = TagsOf(ProcessedIn[2])
    /\ ProcessedIn[1].geometry # ProcessedIn[2].geometry
    /\ Len(SealedOut) = 2

\* The rule as the spec words it.
SealedBySpec(tags) ==
    \/ \E k \in {"building", "highway", "railway", "aeroway", "amenity"} : k \in DOMAIN tags
    \/ /\ "landuse" \in DOMAIN tags
       /\ tags["landuse"] \in {"industrial", "commercial", "retail", "construction", "railway"}
    \/ /\ "leisure" \in DOMAIN tags
       /\ tags["leisure"] \in {"pitch", "track", "sports_centre"}

\* C4: a processed element is labelled sealed iff its tags hold one of the
\* five keys, or a sealed landuse value, or a sealed leisure value; every
\* other processed element, one without tags included, is unsealed.
C4_SealedIffRule ==
    Classified =>
        /\ \A f \in Range(SealedOut) : SealedBySpec(f.properties)
        /\ \A f \in Range(UnsealedOut) : ~SealedBySpec(f.properties)
        /\ \A e \in Range(ProcessedIn) :
              IF SealedBySpec(TagsOf(e))
              THEN ExpectedFeature(e) \in Range(SealedOut)
              ELSE ExpectedFeature(e) \in Range(UnsealedOut)

\* A way tagged aeroway plus an unsealed value was labelled sealed.
C4_Witness ==
    /\ Classified
    /\ \E f \in Range(SealedOut) :
          /\ "aeroway" \in DOMAIN f.properties
          /\ "natural" \in DOMAIN f.properties

\* C5: every feature's ring is closed; the ring of an element whose
\* geometry is already closed is its coordinates unchanged, and otherwise
\* its coordinates followed by the first one.
C5_RingClosed ==
    Classified =>
        /\ \A f \in Range(SealedOut) \cup Range(UnsealedOut) :
              /\ IsClosed(RingOf(f))
              /\ \E e \in Range(ProcessedIn) :
                    /\ f.properties = TagsOf(e)
                    /\ IF IsClosed(PairsOf(e))
                       THEN RingOf(f) = PairsOf(e)
                       ELSE RingOf(f) = Append(PairsOf(e), PairsOf(e)[1])
        /\ \A e \in Range(ProcessedIn) :
              \E f \in Range(SealedOut) \cup Range(UnsealedOut) :
                    /\ f.properties = TagsOf(e)
                    /\ IF IsClosed(PairsOf(e))
                       THEN RingOf(f) = PairsOf(e)
                       ELSE RingOf(f) = Append(PairsOf(e), PairsOf(e)[1])

\* An open and an already closed geometry were converted in one call.
C5_Witness ==
    /\ Classified
    /\ \E e \in Range(ProcessedIn) : IsClosed(PairsOf(e))
    /\ \E e \in Range(ProcessedIn) : ~IsClosed(PairsOf(e))

\* C6: elements that are no ways, have no geometry or fewer than 3 points
\* are in neither collection: the response has status success, its counts
\* are the lengths of its collections and add up to the number of ways with
\* a geometry of at least 3 points (0 when there is no elements list).
C6_CountsValidWays ==
    Classified =>
        /\ layers.status = "success"
        /\ layers.sealed_count = Len(SealedOut)
        /\ layers.unsealed_count = Len(UnsealedOut)
        /\ layers.sealed_count + layers.unsealed_count
              = Cardinality({ i \in DOMAIN ElementsIn : IsProcessed(ElementsIn[i]) })
        /\ "elements" \notin DOMAIN osm_data =>
              SealedOut = <<>> /\ UnsealedOut = <<>>

\* A 2-point way was dropped beside a way that was kept.
C6_Witness ==
    /\ Classified
    /\ Len(ElementsIn) = 2
    /\ \E i \in DOMAIN ElementsIn :
          /\ ElementsIn[i].type = "way"
          /\ "geometry" \in DOMAIN ElementsIn[i]
          /\ Len(ElementsIn[i].geometry) = 2
    /\ layers.sealed_count + layers.unsealed_count = 1

(***************************************************************************)
(* fetch_overpass_data and generate_layers: concurrent requests, each a    *)
(* coroutine that suspends at every await.                                 *)
(***************************************************************************)

\* Requests in flight at once.
NumRequests == 2

Requests == 1..NumRequests

OVERPASS_URLS ==
    << "https://overpass-api.de/api/interpreter",
       "https://overpass.kumi.systems/api/interpreter",
       "https://overpass.nchc.org.tw/api/interpreter" >>

HTTPException(status_code, detail) == [status_code |-> status_code, detail |-> detail]

\* The query text: its fixed settings and clauses, and the box it inserts.
build_combined_query(bbox) ==
    [ settings |-> "[out:json][timeout:90][maxsize:536870912]",
      b        |-> <<bbox.south, bbox.west, bbox.north, bbox.east>>,
      out      |-> "geom" ]

\* The requests posted, and the bodies the Overpass servers answer with.
LayerRequests ==
    { [lat |-> FNorm(482082, -4), lon |-> FNorm(163738, -4), size_km |-> FNorm(1, 0)],
      [lat |-> FNorm(90, 0), lon |-> FNorm(-180, 0), size_km |-> FNorm(10, 0)] }

ServedBodies ==
    LET a == [lat |-> 482000000, lon |-> 163000000]
        b == [lat |-> 482000000, lon |-> 163001000]
        c == [lat |-> 482001000, lon |-> 163001000]
        building == [type |-> "way", geometry |-> <<a, b, c, a>>, tags |-> [building |-> "yes"]]
        forest   == [type |-> "way", geometry |-> <<a, b, c>>, tags |-> [landuse |-> "forest"]]
        path     == [type |-> "way", geometry |-> <<a, b>>, tags |-> [highway |-> "path"]]
        node     == [type |-> "node", tags |-> [amenity |-> "parking"]]
    IN  { EmptyDict,
          [elements |-> <<>>],
          [elements |-> <<building>>],
          [elements |-> <<node, forest>>],
          [elements |-> <<path, forest, building>>] }

Unset == [status |-> "unset"]

NotStarted ==
    [ pc |-> "idle", query |-> Unset, i |-> 0, attempts |-> <<>>,
      osm_data |-> Unset, response |-> Unset ]

\* The loop starts the next post only when the previous await has returned.
PostReadyRacing(q) == q.pc \in {"post", "await"}

PostReady(q) == q.pc = "post"

\* `return response.json()` replaced by remembering the body and going on.
OnSuccessKeepGoing(q, body) ==
    IF q.i < Len(OVERPASS_URLS)
    THEN [q EXCEPT !.attempts[Len(q.attempts)].result = "ok",
                   !.attempts[Len(q.attempts)].response = body,
                   !.osm_data = body, !.i = q.i + 1, !.pc = "post"]
    ELSE [q EXCEPT !.attempts[Len(q.attempts)].result = "ok",
                   !.attempts[Len(q.attempts)].response = body,
                   !.osm_data = body, !.pc = "fetched"]

\* return response.json()
OnSuccess(q, body) ==
    [q EXCEPT !.attempts[Len(q.attempts)].result = "ok",
              !.attempts[Len(q.attempts)].response = body,
              !.osm_data = body, !.pc = "fetched"]

\* `continue` replaced by giving up at the first failure.
OnFailureGiveUp(q) ==
    [q EXCEPT !.attempts[Len(q.attempts)].result = "failed",
              !.pc = "failed",
              !.response = HTTPException(503, "All Overpass API servers are unavailable")]

\* except Exception: continue; after the last url, raise HTTPException(503).
OnFailure(q) ==
    IF q.i < Len(OVERPASS_URLS)
    THEN [q EXCEPT !.attempts[Len(q.attempts)].result = "failed",
                   !.i = q.i + 1, !.pc = "post"]
    ELSE [q EXCEPT !.attempts[Len(q.attempts)].result = "failed",
                   !.pc = "failed",
                   !.response = HTTPException(503, "All Overpass API servers are unavailable")]

\* generate_layers up to the first await: the box, the query, the client.
GenerateLayers(r) ==
    /\ requests[r].pc = "idle"
    /\ \E request \in LayerRequests :
          LET bbox == get_bbox(request.lat, request.lon, request.size_km)
          IN  requests' = [requests EXCEPT ![r] =
                  IF Raised(bbox)
                  THEN [@ EXCEPT !.pc = "failed",
                                 !.response = HTTPException(500, "Internal Server Error")]
                  ELSE [@ EXCEPT !.pc = "post", !.i = 1,
                                 !.query = build_combined_query(bbox)]]
    /\ UNCHANGED <<bbox_in, bbox_out, osm_data, layers, temp>>

\* response = await client.post(url, data={'data': query}): the call is sent.
Post(r) ==
    /\ PostReady(requests[r])
    /\ requests' = [requests EXCEPT ![r] =
          [@ EXCEPT !.pc = "await",
                    !.attempts = Append(@, [ url    |-> OVERPASS_URLS[requests[r].i],
                                             data   |-> requests[r].query,
                                             result |-> "in_flight",
                                             response |-> Unset ])]]
    /\ UNCHANGED <<bbox_in, bbox_out, osm_data, layers, temp>>

\* client.post raises: a network failure or the 90 s timeout.
PostRaises(r) ==
    /\ requests[r].pc = "await"
    /\ requests' = [requests EXCEPT ![r] = OnFailure(@)]
    /\ UNCHANGED <<bbox_in, bbox_out, osm_data, layers, temp>>

\* response.raise_for_status() raises: a non-2xx status.
RaiseForStatusRaises(r) ==
    /\ requests[r].pc = "await"
    /\ requests' = [requests EXCEPT ![r] = OnFailure(@)]
    /\ UNCHANGED <<bbox_in, bbox_out, osm_data, layers, temp>>

\* response.json() raises: a malformed body.
JsonRaises(r) ==
    /\ requests[r].pc = "await"
    /\ requests' = [requests EXCEPT ![r] = OnFailure(@)]
    /\ UNCHANGED <<bbox_in, bbox_out, osm_data, layers, temp>>

\* The post succeeds with a 2xx status and a body that parses.
PostSucceeds(r) ==
    /\ requests[r].pc = "await"
    /\ \E body \in ServedBodies :
          requests' = [requests EXCEPT ![r] = OnSuccess(@, body)]
    /\ UNCHANGED <<bbox_in, bbox_out, osm_data, layers, temp>>

\* generate_layers after `await fetch_overpass_data(query)`.
Respond(r) ==
    /\ requests[r].pc = "fetched"
    /\ requests' = [requests EXCEPT ![r] =
          [@ EXCEPT !.pc = "done", !.response = LayerResponse(requests[r].osm_data)]]
    /\ UNCHANGED <<bbox_in, bbox_out, osm_data, layers, temp>>

Init ==
    /\ requests = [r \in Requests |-> NotStarted]
    /\ bbox_in = Idle
    /\ bbox_out = Idle
    /\ osm_data = Idle
    /\ layers = Idle
    /\ temp = Idle

Next ==
    \E r \in Requests :
        \/ GenerateLayers(r)
        \/ Post(r)
        \/ PostRaises(r)
        \/ RaiseForStatusRaises(r)
        \/ JsonRaises(r)
        \/ PostSucceeds(r)
        \/ Respond(r)

Spec == Init /\ [][Next]_vars

\* fetch_overpass_data has returned to generate_layers.
Fetched(q) == q.pc \in {"fetched", "done"}

ServiceUnavailable(q) == q.pc = "failed" /\ q.response.status_code = 503

\* C1: fetch_overpass_data returns the parsed response of the first
\* endpoint, in the order of OVERPASS_URLS, whose attempt succeeds: every
\* endpoint before it was attempted and failed, and the data returned is
\* the body that endpoint served.
C1_FirstSuccessReturned ==
    \A r \in Requests :
        LET q == requests[r]
            a == q.attempts
        IN  Fetched(q) =>
                \E k \in DOMAIN a :
                    /\ a[k].result = "ok"
                    /\ \A j \in 1..(k - 1) : a[j].result = "failed"
                    /\ \A j \in 1..k : a[j].url = OVERPASS_URLS[j]
                    /\ q.osm_data = a[k].response

\* The first two endpoints failed and the third one's response was returned.
C1_Witness ==
    \E r \in Requests :
        LET q == requests[r]
        IN  /\ Fetched(q)
            /\ Len(q.attempts) = 3
            /\ q.attempts[1].result = "failed"
            /\ q.attempts[2].result = "failed"
            /\ q.attempts[3].result = "ok"
            /\ q.osm_data = q.attempts[3].response
            /\ "elements" \in DOMAIN q.osm_data

\* C2: the request fails with 503 exactly when every configured endpoint
\* has failed; no endpoint is ever attempted twice, the 503 follows one
\* pass over the endpoints in order, and the failed request carries no
\* layer payload.
C2_UnavailableIffAllFail ==
    \A r \in Requests :
        LET q == requests[r]
            a == q.attempts
        IN  /\ ServiceUnavailable(q) <=>
                  /\ Len(a) = Len(OVERPASS_URLS)
                  /\ \A k \in DOMAIN a : a[k].result = "failed"
            /\ \A j, k \in DOMAIN a : j # k => a[j].url # a[k].url
            /\ Len(a) <= Len(OVERPASS_URLS)
            /\ ServiceUnavailable(q) =>
                  /\ \A k \in DOMAIN a : a[k].url = OVERPASS_URLS[k]
                  /\ DOMAIN q.response = {"status_code", "detail"}
                  /\ q.osm_data = Unset

\* All three endpoints failed and the request ended with 503.
C2_Witness ==
    \E r \in Requests :
        /\ ServiceUnavailable(requests[r])
        /\ Len(requests[r].attempts) = 3

InFlight(q) == { k \in DOMAIN q.attempts : q.attempts[k].result = "in_flight" }

\* C9: in every request at most one post is in flight, attempt k is the
\* post to endpoint k and is made only after attempt k-1 has completed with
\* a failure (so none follows a success), whatever the other requests are
\* doing; and a step of one request changes no other request's state.
C9_SequentialAttempts ==
    /\ [](\A r \in Requests :
            LET a == requests[r].attempts
            IN  /\ Cardinality(InFlight(requests[r])) <= 1
                /\ \A k \in DOMAIN a : a[k].url = OVERPASS_URLS[k]
                /\ \A k \in DOMAIN a : k > 1 => a[k - 1].result = "failed")
    /\ [][\A r \in Requests :
            requests'[r] # requests[r] =>
                \A o \in Requests \ {r} : requests'[o] = requests[o]]_vars

\* Two requests have a post in flight at once, one of them on its second
\* endpoint.
C9_Witness ==
    /\ \A r \in Requests : Cardinality(InFlight(requests[r])) = 1
    /\ \E r \in Requests : Len(requests[r].attempts) = 2
    /\ \E r \in Requests : Len(requests[r].attempts) = 1

(***************************************************************************)
(* get_surface_temperature: one request, a step per call that waits for    *)
(* Earth Engine (getInfo).                                                 *)
(***************************************************************************)

\* Most images the filtered collection holds, most samples the grid returns.
MaxImages == 2

MaxSamples == 2

\* JSON null, as Earth Engine returns it for a masked pixel or region.
Null == [null |-> TRUE]

EEException(message) == [class |-> "EEException", str |-> message]

OtherException(class, message) == [class |-> class, str |-> message]

\* str(e) of an HTTPException, raised as a Python exception.
RaisedHTTPException(e) ==
    [class |-> "HTTPException", str |-> "404: " \o e.detail, http |-> e]

NoImagery ==
    HTTPException(404,
        "No cloud-free Landsat 8/9 L2 ST images in the last 6 months for this area.")

\* except ee.EEException ... except Exception ...: what the request fails with.
handle_exception(e) ==
    IF e.class = "EEException"
    THEN HTTPException(500, "Earth Engine error: " \o e.str)
    ELSE HTTPException(500, "Error fetching temperature data: " \o e.str)

TemperatureRequests ==
    { [lat |-> FNorm(482082, -4), lon |-> FNorm(163738, -4), size_km |-> sz] :
        sz \in { FNorm(5, -1), FNorm(15, -1), FNorm(5, 0), FNorm(10, 0) } }

\* reduceRegion(...).getInfo(): the statistics, none, or nulls (all masked).
StatsInfos ==
    { [ST_B10_min |-> FNorm(18123, -3), ST_B10_max |-> FNorm(35678, -3),
       ST_B10_mean |-> FNorm(2525, -2)],
      EmptyDict,
      [ST_B10_min |-> Null, ST_B10_max |-> Null, ST_B10_mean |-> Null] }

\* samples.getInfo(): point features with an ST_B10 value, a null or none.
SampleFeatures ==
    LET points == { [coordinates |-> <<FNorm(163738, -4), FNorm(482082, -4)>>],
                    [coordinates |-> <<FNorm(163747, -4), FNorm(482091, -4)>>] }
        props  == { [ST_B10 |-> FNorm(23456, -3)], [ST_B10 |-> FNorm(0, 0)],
                    [ST_B10 |-> Null], EmptyDict }
    IN  { [geometry |-> g, properties |-> pr] : g \in points, pr \in props }
        \cup { [geometry |-> g] : g \in points }

FeaturesInfos ==
    { EmptyDict } \cup { [features |-> s] : s \in SeqsUpTo(SampleFeatures, MaxSamples) }

TempNotStarted ==
    [ pc |-> "idle", request |-> Unset, aoi |-> Unset, coll_size |-> Unset,
      image_date |-> Unset, stats |-> Unset, sample_scale_m |-> Unset,
      features_info |-> Unset, e |-> Unset, response |-> Unset ]

\* sample_scale_m = max(request.size_km * 1000.0 / grid_size, 30.0)
sample_scale(size_km) ==
    FMax(FDiv(FMul(size_km, FNorm(1000, 0)), FNorm(50, 0)), FNorm(30, 0))

\* `if not temp_val`: a sample of 0.0 is skipped too.
no_value_falsy(temp_val) == temp_val = Null \/ temp_val = FNorm(0, 0)

\* if temp_val is None
no_value(temp_val) == temp_val = Null

\* The square polygon around one sample.
Square(lon, lat, half_size, temp_val) ==
    [ type     |-> "Feature",
      geometry |-> [ type |-> "Polygon",
                     coordinates |-> << <<
                        <<FSub(lon, half_size), FSub(lat, half_size)>>,
                        <<FAdd(lon, half_size), FSub(lat, half_size)>>,
                        <<FAdd(lon, half_size), FAdd(lat, half_size)>>,
                        <<FSub(lon, half_size), FAdd(lat, half_size)>>,
                        <<FSub(lon, half_size), FSub(lat, half_size)>> >> >> ],
      properties |-> [temperature |-> FRound2(temp_val)] ]

\* for f in features_info.get('features', []): from feature i on.
RECURSIVE temperature_loop(_, _, _, _)
temperature_loop(features, i, half_size, temperature_data) ==
    IF i > Len(features) THEN temperature_data
    ELSE LET f        == features[i]
             props    == GetOr(f, "properties", EmptyDict)
             temp_val == GetOr(props, "ST_B10", Null)
         IN  IF no_value(temp_val)
             THEN temperature_loop(features, i + 1, half_size, temperature_data)
             ELSE temperature_loop(features, i + 1, half_size,
                      Append(temperature_data,
                             Square(f.geometry.coordinates[1], f.geometry.coordinates[2],
                                    half_size, temp_val)))

TemperatureResponse(q, features_info) ==
    LET half_size == FDiv(q.sample_scale_m, FNorm(111320, 0))
    IN  [ temperature_data |->
              [ type     |-> "FeatureCollection",
                features |-> temperature_loop(GetOr(features_info, "features", <<>>),
                                              1, half_size, <<>>) ],
          min_temp   |-> FRound2(GetOr(q.stats, "ST_B10_min", FNorm(0, 0))),
          max_temp   |-> FRound2(GetOr(q.stats, "ST_B10_max", FNorm(0, 0))),
          mean_temp  |-> FRound2(GetOr(q.stats, "ST_B10_mean", FNorm(0, 0))),
          status     |-> "success",
          image_date |-> q.image_date ]

\* An exception e raised inside the try block.
Fail(q, e) == [q EXCEPT !.pc = "failed", !.e = e, !.response = handle_exception(e)]

\* The handler up to `coll.size().getInfo()`: the box, the area, the filters.
GetSurfaceTemperature ==
    /\ temp.pc = "idle"
    /\ \E request \in TemperatureRequests :
          LET bbox == get_bbox(request.lat, request.lon, request.size_km)
          IN  temp' =
                  IF Raised(bbox)
                  THEN Fail([temp EXCEPT !.request = request],
                            OtherException(bbox.exception, "float division by zero"))
                  ELSE [temp EXCEPT !.pc = "size", !.request = request,
                                    !.aoi = <<bbox.west, bbox.south, bbox.east, bbox.north>>]
    /\ UNCHANGED <<bbox_in, bbox_out, osm_data, layers, requests>>

\* coll.size().getInfo() returns, and the guard on an empty collection.
SizeGetInfo ==
    /\ temp.pc = "size"
    /\ \E n \in 0..MaxImages :
          temp' = IF n = 0
                  THEN Fail([temp EXCEPT !.coll_size = n], RaisedHTTPException(NoImagery))
                  ELSE [temp EXCEPT !.coll_size = n, !.pc = "image_date"]
    /\ UNCHANGED <<bbox_in, bbox_out, osm_data, layers, requests>>

\* ee.Date(image.get('system:time_start')).format('YYYY-MM-dd').getInfo()
ImageDateGetInfo ==
    /\ temp.pc = "image_date"
    /\ \E date \in {"2025-06-30"} :
          temp' = [temp EXCEPT !.image_date = date, !.pc = "stats"]
    /\ UNCHANGED <<bbox_in, bbox_out, osm_data, layers, requests>>

\* st_c.reduceRegion(...).getInfo(), float(stats.get(...)) and the scale.
StatsGetInfo ==
    /\ temp.pc = "stats"
    /\ \E stats \in StatsInfos :
          temp' =
              IF \E k \in DOMAIN stats : stats[k] = Null
              THEN Fail([temp EXCEPT !.stats = stats],
                        OtherException("TypeError",
                            "float() argument must be a string or a number, not 'NoneType'"))
              ELSE [temp EXCEPT !.stats = stats, !.pc = "sample",
                                !.sample_scale_m = sample_scale(temp.request.size_km)]
    /\ UNCHANGED <<bbox_in, bbox_out, osm_data, layers, requests>>

\* samples.getInfo(), the loop over the samples and the response.
SamplesGetInfo ==
    /\ temp.pc = "sample"
    /\ \E features_info \in FeaturesInfos :
          temp' = [temp EXCEPT !.features_info = features_info, !.pc = "done",
                               !.response = TemperatureResponse(temp, features_info)]
    /\ UNCHANGED <<bbox_in, bbox_out, osm_data, layers, requests>>

WaitingForEarthEngine == temp.pc \in {"size", "image_date", "stats", "sample"}

\* An Earth Engine call raises ee.EEException.
EarthEngineRaises ==
    /\ WaitingForEarthEngine
    /\ temp' = Fail(temp, EEException("Computation timed out."))
    /\ UNCHANGED <<bbox_in, bbox_out, osm_data, layers, requests>>

\* An Earth Engine call raises another exception (the connection fails).
CallRaises ==
    /\ WaitingForEarthEngine
    /\ temp' = Fail(temp, OtherException("ConnectionError", "Connection aborted."))
    /\ UNCHANGED <<bbox_in, bbox_out, osm_data, layers, requests>>

InitTemperature ==
    /\ temp = TempNotStarted
    /\ bbox_in = Idle
    /\ bbox_out = Idle
    /\ osm_data = Idle
    /\ layers = Idle
    /\ requests = Idle

NextTemperature ==
    \/ GetSurfaceTemperature
    \/ SizeGetInfo
    \/ ImageDateGetInfo
    \/ StatsGetInfo
    \/ SamplesGetInfo
    \/ EarthEngineRaises
    \/ CallRaises

SpecTemperature == InitTemperature /\ [][NextTemperature]_vars

\* C7: when the filtered collection is empty the request fails with the
\* guard's HTTP 404 "No cloud-free Landsat 8/9 L2 ST images ..." itself,
\* not with a 500, and no later step (image date, statistics, sampling)
\* has run.
C7_NoImageryReachesCaller ==
    (temp.pc = "failed" /\ temp.e = RaisedHTTPException(NoImagery)) =>
        /\ temp.response = NoImagery
        /\ temp.image_date = Unset
        /\ temp.stats = Unset
        /\ temp.features_info = Unset

SamplesIn == GetOr(temp.features_info, "features", <<>>)

\* A sample that carries a temperature value.
HasValue(f) ==
    /\ "properties" \in DOMAIN f
    /\ "ST_B10" \in DOMAIN f.properties
    /\ f.properties.ST_B10 # Null

ValuedSamples == SelectSeq(SamplesIn, HasValue)

\* C10: the response holds one feature per sample that carries a value, in
\* sample order, and none for the others; each is a closed ring of 5
\* vertices, the square around the sample point of half-width
\* scale / 111320, where scale = max(size_km * 1000 / 50, 30) is never
\* below 30 and is 100 for size_km = 5.
C10_SquarePerValuedSample ==
    temp.pc = "done" =>
        LET features == temp.response.temperature_data.features
            raw      == FDiv(FMul(temp.request.size_km, FNorm(1000, 0)), FNorm(50, 0))
            scale    == temp.sample_scale_m
            h        == FDiv(scale, FNorm(111320, 0))
        IN  /\ scale = IF FLt(raw, FNorm(30, 0)) THEN FNorm(30, 0) ELSE raw
            /\ ~FLt(scale, FNorm(30, 0))
            /\ temp.request.size_km = FNorm(5, 0) => scale = FNorm(100, 0)
            /\ Len(features) = Len(ValuedSamples)
            /\ \A i \in DOMAIN features :
                  LET ring == features[i].geometry.coordinates[1]
                      lon  == ValuedSamples[i].geometry.coordinates[1]
                      lat  == ValuedSamples[i].geometry.coordinates[2]
                  IN  /\ Len(ring) = 5
                      /\ ring[1] = ring[5]
                      /\ ring[1] = <<FSub(lon, h), FSub(lat, h)>>
                      /\ ring[2] = <<FAdd(lon, h), FSub(lat, h)>>
                      /\ ring[3] = <<FAdd(lon, h), FAdd(lat, h)>>
                      /\ ring[4] = <<FSub(lon, h), FAdd(lat, h)>>
                      /\ FLt(ring[1][1], lon) /\ FLt(lon, ring[2][1])
                      /\ FLt(ring[1][2], lat) /\ FLt(lat, ring[3][2])

\* For size_km = 5, a sample without a value was skipped and a later
\* sample of 0.0 degrees got its square.
C10_Witness ==
    /\ temp.pc = "done"
    /\ temp.request.size_km = FNorm(5, 0)
    /\ Len(SamplesIn) = 2
    /\ ~HasValue(SamplesIn[1])
    /\ HasValue(SamplesIn[2])
    /\ SamplesIn[2].properties.ST_B10 = FNorm(0, 0)
    /\ Len(temp.response.temperature_data.features) = 1

(***************************************************************************)
(* Specification of get_bbox over the valid requests.                      *)
(***************************************************************************)

InitBBox ==
    /\ bbox_in \in { <<lat, lon, size_km>> \in Latitudes \X Longitudes \X Sizes :
                        LayerRequestValid(lat, lon, size_km) }
    /\ bbox_out = Pending
    /\ osm_data = Idle
    /\ layers = Idle
    /\ requests = Idle
    /\ temp = Idle

CallGetBBox ==
    /\ bbox_out = Pending
    /\ bbox_out' = get_bbox(bbox_in[1], bbox_in[2], bbox_in[3])
    /\ UNCHANGED <<bbox_in, osm_data, layers, requests, temp>>

NextBBox == CallGetBBox

SpecBBox == InitBBox /\ [][NextBBox]_vars

BBoxCalled == bbox_out # Pending /\ bbox_out # Idle

\* x and y agree within the rounding of floats of the size of c and y.
Near(x, y, c) ==
    FLe(FAbs(FSub(x, y)), FMul(FAdd(FAbs(c), FAbs(y)), FNorm(2, 1 - Digits)))

\* C8: for every valid (lat, lon, size_km), lat = 90 and lat = -90
\* included, get_bbox returns a box (it raises nothing) with south < north
\* and west < east, lat - south = north - lat = (size_km/2)/111 and
\* lon - west = east - lon = (size_km/2)/(111*cos(lat)), within float
\* rounding, cos(lat) being math.cos(math.radians(lat)).
C8_BBoxOrderedSymmetric ==
    BBoxCalled =>
        LET lat     == bbox_in[1]
            lon     == bbox_in[2]
            half    == FDiv(bbox_in[3], FNorm(2, 0))
            lat_off == FDiv(half, FNorm(111, 0))
            lon_off == FDiv(half, FMul(FNorm(111, 0), CosRadians(lat)))
        IN  /\ ~Raised(bbox_out)
            /\ FLt(bbox_out.south, bbox_out.north)
            /\ FLt(bbox_out.west, bbox_out.east)
            /\ Near(FSub(lat, bbox_out.south), lat_off, lat)
            /\ Near(FSub(bbox_out.north, lat), lat_off, lat)
            /\ Near(FSub(lon, bbox_out.west), lon_off, lon)
            /\ Near(FSub(bbox_out.east, lon), lon_off, lon)

\* get_bbox returned a box for a request at the pole.
C8_Witness ==
    /\ BBoxCalled
    /\ bbox_in[1] = FNorm(90, 0)
    /\ ~Raised(bbox_out)
    /\ FLt(bbox_out.west, bbox_out.east)

====
